---- MODULE Spec2Model ----
(***************************************************************************)
(* Surface_Offline (surface_tracker/surface_offline.py): the per-frame     *)
(* location cache of an offline surface, its bootstrap scan, the           *)
(* background cache filler and the operations that invalidate the cache.   *)
(*                                                                         *)
(* Frames are 0-based as in the source; caches are functions over Frames.  *)
(* A method is an operator from the object's state (a record) to the       *)
(* object's state; an uncaught Python exception is recorded in field exc   *)
(* together with every side effect made before it was raised.              *)
(***************************************************************************)
EXTENDS Integers, Sequences, FiniteSets, TLC

\* ------------------------------------------------------------- bounds
NFrames == 2        \* len(marker_cache): the number of frames of the recording
MaxJobs == 2        \* background jobs alive at once (the code keeps one)

Frames == 0 .. (NFrames - 1)

\* ------------------------------------------------------------- values
NoneIdx == -1              \* start_idx = None
NoJob == 0                 \* location_cache_filler = None
NoCache == <<>>            \* location_cache = None
RequiredObs == 2           \* marker observations that complete a definition (build_up_status 1.0)
NoCallback == "None"       \* on_surface_change = None
Callback == "callback"     \* on_surface_change = a subscriber

\* marker_cache entries: False (not computed yet), [] (no markers), [m, ...]
MarkerUnknown == "False"
MarkerEmpty == "Empty"
MarkerVisible == "Markers"
MarkerEntries == {MarkerUnknown, MarkerEmpty, MarkerVisible}

\* location_cache entries: False, Surface_Location(detected=False),
\* Surface_Location(detected=True, ...)
Unknown == "Unknown"
NotDetected == "NotDetected"
Detected == "Detected"

VARIABLES
    marker_cache,             \* the marker source handed to every call
    location_cache,
    build_up_status,
    start_idx,
    observations_frame_idxs,
    location_cache_filler,
    cache_seek_idx,
    on_surface_change,
    detected,
    jobs,                     \* the background jobs that were neither cancelled nor completed
    call                      \* what the last call did (its arguments and outcome)

vars == <<marker_cache, location_cache, build_up_status, start_idx,
          observations_frame_idxs, location_cache_filler, cache_seek_idx,
          on_surface_change, detected, jobs, call>>

\* ------------------------------------------------------------- helpers
SeqToSet(q) == {q[i] : i \in 1 .. Len(q)}

\* Cache_List([False] * len(marker_cache))
EmptyCache == [i \in Frames |-> Unknown]

\* Cache_List.update(key, item, force=True)
CacheUpdate(cache, key, item) == [cache EXCEPT ![key] = item]

\* Surface.locate(markers, camera_model, registered_markers_undist, registered_markers_dist)
Locate(markers) == IF markers = MarkerVisible THEN Detected ELSE NotDetected

\* Surface.defined
Defined(s) == s.build_up_status >= RequiredObs

Raise(s, e) == [s EXCEPT !.exc = e]

\* self.on_surface_change(self), guarded or not by the caller
FireCallback(s) ==
    IF s.on_surface_change = NoCallback
    THEN Raise(s, "TypeError")
    ELSE [s EXCEPT !.n_callbacks = @ + 1]

\* the job table without job j (its process ended)
Without(table, j) == [k \in DOMAIN table \ {j} |-> table[k]]

\* Job.cancel()
CancelJob(s, j) ==
    [s EXCEPT !.jobs = Without(@, j), !.cancelled = Append(@, j)]

\* the handle of a job that is not in the table
NewJob(table) == CHOOSE n \in 1 .. (MaxJobs + 1) :
                    /\ n \notin DOMAIN table
                    /\ \A k \in 1 .. (n - 1) : k \in DOMAIN table

\* background_tasks.background_data_processor(marker_cache, ..., visited_list, seek)
\* visited_list marks the entries that are False: the job computes the others.
StartJob(s, mc) ==
    [s EXCEPT !.jobs = (NewJob(s.jobs) :>
                            [todo |-> {i \in Frames : mc[i] # MarkerUnknown},
                             queue |-> {}]) @@ s.jobs,
              !.location_cache_filler = NewJob(s.jobs),
              !.started = Append(@, NewJob(s.jobs))]

\* ------------------------------------------------------------- bootstrap scan
\* Surface_Offline._update_definition: records the frame, then the base class
\* accumulates the frame's marker observations (nothing for a frame without
\* markers); build_up_status is counted in observations, RequiredObs being 1.0.
_update_definition(s, idx, visible_markers) ==
    [s EXCEPT !.observations_frame_idxs = Append(@, idx),
              !.build_up_status =
                  IF visible_markers = MarkerVisible THEN @ + 1 ELSE @]

\* `except TypeError`: start_idx was None, the current frame becomes the first
ScanStart(s, frame_idx) == [s EXCEPT !.start_idx = frame_idx]

\* mutant: the break notifies the subscriber, as the else clause does
ScanBreak_notifies(s) ==
    LET s1 == [s EXCEPT !.scan = "break"]
    IN  IF s1.on_surface_change # NoCallback THEN FireCallback(s1) ELSE s1

\* `if marker_cache[def_idx] is False: break`
ScanBreak(s) == [s EXCEPT !.scan = "break"]

\* `if def_idx == frame_idx - 1`: build_up_status = 1.0, prune_markers(), break
ScanClosed(s) ==
    [s EXCEPT !.build_up_status = RequiredObs, !.scan = "closed"]

\* the while loop's else clause: the loop condition `not self.defined` became
\* false without a break
ScanElse(s) ==
    LET s1 == [s EXCEPT !.location_cache = NoCache, !.scan = "else"]
    IN  IF s1.on_surface_change # NoCallback THEN FireCallback(s1) ELSE s1

\* the loop of _build_definition_from_cache, entered with def_idx
RECURSIVE ScanLoop(_, _, _, _)
ScanLoop(s, def_idx, frame_idx, mc) ==
    IF Defined(s) THEN ScanElse(s)
    ELSE
    LET wrapped == IF def_idx = NFrames /\ frame_idx > 0 THEN 0 ELSE def_idx
        unset == wrapped = NoneIdx          \* marker_cache[None]: TypeError, caught
        d == IF unset THEN frame_idx ELSE wrapped
        s0 == IF unset THEN ScanStart(s, frame_idx) ELSE s
    IN  IF ~unset /\ wrapped \notin Frames
        THEN Raise([s EXCEPT !.scan = "raised"], "IndexError")   \* marker_cache[len]
        ELSE IF ~unset /\ mc[wrapped] = MarkerUnknown
        THEN ScanBreak(s)
        ELSE
        LET fresh == d \notin SeqToSet(s0.observations_frame_idxs)
        IN  IF fresh /\ mc[d] = MarkerUnknown
            THEN Raise([s0 EXCEPT !.scan = "raised"], "TypeError")  \* `for m in False`
            ELSE
            LET s1 == IF fresh THEN _update_definition(s0, d, mc[d]) ELSE s0
            IN  IF d = frame_idx - 1
                THEN ScanClosed(s1)
                ELSE ScanLoop(s1, d + 1, frame_idx, mc)

_build_definition_from_cache(s, frame_idx, mc) ==
    LET r == ScanLoop(s, s.start_idx, frame_idx, mc)
    IN  IF s.scan = "none"
        THEN [r EXCEPT !.scan_cache = r.location_cache,
                       !.scan_callbacks = r.n_callbacks]
        ELSE [r EXCEPT !.scan = s.scan]

\* ------------------------------------------------------------- background filler
\* the results the job's fetch() yields now, written with force=True
DrainInto(cache, results, mc) ==
    [i \in Frames |-> IF i \in results THEN Locate(mc[i]) ELSE cache[i]]

\* a completed job: its handle is dropped and the change callback is called
FillerCompleted(s) ==
    FireCallback([s EXCEPT !.jobs = Without(@, s.location_cache_filler),
                           !.completed = Append(@, s.location_cache_filler),
                           !.location_cache_filler = NoJob])

_fetch_from_location_cache_filler(s, mc) ==
    IF s.location_cache_filler = NoJob THEN s
    ELSE
    LET j == s.location_cache_filler
        job == s.jobs[j]
        finished == job.todo = {}     \* the end-of-results mark follows the queue
    IN  IF job.queue # {} /\ s.location_cache = NoCache
        THEN \* None.update(...): AttributeError, caught; then None.completed
             Raise([CancelJob(s, j) EXCEPT !.location_cache_filler = NoJob],
                   "AttributeError")
        ELSE
        LET s1 == [s EXCEPT
                     !.location_cache =
                         IF job.queue = {} THEN @ ELSE DrainInto(@, job.queue, mc),
                     !.drained = @ \cup job.queue,
                     !.jobs[j].queue = {}]
        IN  IF finished THEN FillerCompleted(s1) ELSE s1

\* mutant: the held job is not cancelled before the new one is started
recalculate_without_cancel(s, frame_idx, mc) ==
    StartJob([s EXCEPT !.cache_seek_idx = frame_idx,
                       !.location_cache = EmptyCache], mc)

\* mutant: the seek cursor is left where it was
recalculate_keeps_cursor(s, frame_idx, mc) ==
    LET s1 == IF s.location_cache_filler # NoJob
              THEN CancelJob(s, s.location_cache_filler) ELSE s
    IN  StartJob([s1 EXCEPT !.location_cache = EmptyCache], mc)

\* mutant: the cache is reset but no background job is started
recalculate_without_start(s, frame_idx, mc) ==
    LET s1 == IF s.location_cache_filler # NoJob
              THEN [CancelJob(s, s.location_cache_filler)
                        EXCEPT !.location_cache_filler = NoJob]
              ELSE s
    IN  [s1 EXCEPT !.cache_seek_idx = frame_idx, !.location_cache = EmptyCache]

_recalculate_location_cache(s, frame_idx, mc) ==
    LET s1 == IF s.location_cache_filler # NoJob
              THEN CancelJob(s, s.location_cache_filler) ELSE s
    IN  StartJob([s1 EXCEPT !.cache_seek_idx = frame_idx,
                            !.location_cache = EmptyCache], mc)

update_location_cache(s, frame_idx, mc) ==
    LET location == IF mc[frame_idx] \in {MarkerUnknown, MarkerEmpty}
                    THEN NotDetected ELSE Locate(mc[frame_idx])
    IN  IF s.location_cache = NoCache       \* AttributeError, caught
        THEN _recalculate_location_cache(s, frame_idx, mc)
        ELSE [s EXCEPT !.location_cache = CacheUpdate(@, frame_idx, location)]

\* ------------------------------------------------------------- update_location
\* self.detected = location.detected (and the transforms of the location)
Adopt(s, location) == [s EXCEPT !.detected = (location = Detected)]

\* what the lookup `self.location_cache[frame_idx]` of the outermost call found
NoteLookup(s, found) ==
    IF s.lookup # "none" THEN s
    ELSE [s EXCEPT !.lookup = found, !.lookup_cache = s.location_cache,
                   !.lookup_filler = s.location_cache_filler]

\* mutant: the transient not-detected result is written into the cache
MarkersNotComputed_cached(s, frame_idx) ==
    Adopt([s EXCEPT !.location_cache = CacheUpdate(@, frame_idx, NotDetected)],
          NotDetected)

\* `location is False` and the marker source has no data either
MarkersNotComputed(s, frame_idx) == Adopt(s, NotDetected)

RECURSIVE update_location(_, _, _)
update_location(s, frame_idx, mc) ==
    LET s1 == IF ~Defined(s) THEN _build_definition_from_cache(s, frame_idx, mc) ELSE s
    IN  IF s1.exc # "none" THEN s1
        ELSE
        LET s2 == _fetch_from_location_cache_filler(s1, mc)
        IN  IF s2.exc # "none" THEN s2
            ELSE
            LET absent == s2.location_cache = NoCache
                location == IF absent THEN Unknown ELSE s2.location_cache[frame_idx]
                s3 == NoteLookup(s2, IF absent THEN "absent"
                                     ELSE IF location = Unknown THEN "unknown"
                                     ELSE "resolved")
                s4 == IF absent THEN _recalculate_location_cache(s3, frame_idx, mc)
                      ELSE s3
            IN  IF location = Unknown
                THEN IF mc[frame_idx] # MarkerUnknown
                     THEN update_location(update_location_cache(s4, frame_idx, mc),
                                          frame_idx, mc)
                     ELSE MarkersNotComputed(s4, frame_idx)
                ELSE Adopt(s4, location)

\* ------------------------------------------------------------- editing
\* mutant: the cache is not reset before the edited frame is recomputed
move_corner_without_reset(s, frame_idx, mc) ==
    update_location_cache(s, frame_idx, mc)

move_corner(s, frame_idx, mc) ==
    update_location_cache([s EXCEPT !.location_cache = EmptyCache], frame_idx, mc)

\* mutant: the invalidation forgets which frames built the definition
add_marker_clears_observations(s) ==
    [s EXCEPT !.location_cache = NoCache, !.observations_frame_idxs = <<>>]

add_marker(s) == [s EXCEPT !.location_cache = NoCache]

pop_marker(s) == [s EXCEPT !.location_cache = NoCache]

\* ------------------------------------------------------------- section readers
\* slice(start, stop) within the recording: <<start, stop>>
Sections == {sec \in (0 .. NFrames) \X (0 .. NFrames) : sec[1] <= sec[2]}

\* self.location_cache[section]: the entries of the section, in order
Slice(cache, section) ==
    [k \in 1 .. (section[2] - section[1]) |-> cache[section[1] + k - 1]]

\* the events of the window enclosing frame_idx, mapped onto the surface with
\* the transform stored for that frame
GazeOnSurf(frame_idx) == <<"gaze_on_surf", frame_idx>>

\* mutant: frames without mapped events are left out of the result
map_section_skips_empty(s, section) ==
    IF s.location_cache = NoCache THEN <<>>
    ELSE
    LET section_cache == Slice(s.location_cache, section)
        per_frame == [k \in DOMAIN section_cache |->
                         IF section_cache[k] = Detected
                         THEN GazeOnSurf(k - 1 + section[1])
                         ELSE <<>>]
    IN  SelectSeq(per_frame, LAMBDA gaze_on_surf : gaze_on_surf # <<>>)

map_section(s, section) ==
    IF s.location_cache = NoCache THEN <<>>          \* TypeError, caught
    ELSE
    LET section_cache == Slice(s.location_cache, section)
    IN  [k \in DOMAIN section_cache |->
            IF section_cache[k] # Unknown /\ section_cache[k] = Detected
            THEN GazeOnSurf(k - 1 + section[1])
            ELSE <<>>]

\* bool(x) of a cache entry: False is false, a Surface_Location object is true
Truthy(x) == x # Unknown

visible_count_in_section(s, section) ==
    IF s.location_cache = NoCache THEN 0
    ELSE
    LET section_cache == Slice(s.location_cache, section)
    IN  Cardinality({k \in DOMAIN section_cache : Truthy(section_cache[k])})

\* ------------------------------------------------------------- persistence
\* Surface_Location.get_serializable_copy: a dict of plain values
Serialize(location) == [detected |-> location = Detected]

\* Surface_Location.load_from_serializable_copy
Deserialize(copy) == IF copy.detected THEN Detected ELSE NotDetected

\* a dict without keys
NoRecord == [keys |-> {}, cache_is_none |-> TRUE, cache |-> <<>>,
             start_idx |-> NoneIdx, observations_frame_idxs |-> <<>>,
             build_up_status |-> 0]

\* mutant: a cache with Unknown entries is saved as it is, entry by entry
save_partial_cache(s) ==
    [keys |-> {"cache", "added_in_player"},
     cache_is_none |-> s.location_cache = NoCache,
     cache |-> IF s.location_cache = NoCache THEN <<>>
               ELSE [i \in Frames |-> Serialize(s.location_cache[i])],
     start_idx |-> s.start_idx,
     observations_frame_idxs |-> s.observations_frame_idxs,
     build_up_status |-> s.build_up_status]

\* save_dict["cache"] is None when the cache is None or holds a False entry;
\* the base class saves the definition (build_up_status with it)
save_to_dict(s) ==
    LET partial == \/ s.location_cache = NoCache
                   \/ \E i \in Frames : s.location_cache[i] = Unknown
    IN  [keys |-> {"cache", "added_in_player"},
         cache_is_none |-> partial,
         cache |-> IF partial THEN <<>>
                   ELSE [i \in Frames |-> Serialize(s.location_cache[i])],
         start_idx |-> s.start_idx,
         observations_frame_idxs |-> s.observations_frame_idxs,
         build_up_status |-> s.build_up_status]

\* the record with only the keys in ks (a record written by another program
\* has no "added_in_player", and may have no "cache")
Strip(rec, ks) ==
    [rec EXCEPT !.keys = ks,
                !.cache_is_none = IF "cache" \in ks THEN @ ELSE TRUE,
                !.cache = IF "cache" \in ks THEN @ ELSE <<>>,
                !.start_idx = IF "added_in_player" \in ks THEN @ ELSE NoneIdx,
                !.observations_frame_idxs =
                    IF "added_in_player" \in ks THEN @ ELSE <<>>]

_load_from_dict(s, init_dict) ==
    LET s1 == [s EXCEPT !.build_up_status = init_dict.build_up_status]
        \* KeyError: no "cache"; TypeError: len(None)
        s2 == [s1 EXCEPT !.location_cache =
                  IF "cache" \notin init_dict.keys \/ init_dict.cache_is_none
                  THEN NoCache
                  ELSE [i \in DOMAIN init_dict.cache |->
                            Deserialize(init_dict.cache[i])]]
    IN  IF "added_in_player" \notin init_dict.keys
        THEN [s2 EXCEPT !.observations_frame_idxs = <<>>,
                        !.start_idx = 0,
                        !.build_up_status = RequiredObs]
        ELSE [s2 EXCEPT !.observations_frame_idxs = init_dict.observations_frame_idxs,
                        !.start_idx = init_dict.start_idx]

\* the object before any attribute is set
Blank ==
    [location_cache |-> NoCache,
     build_up_status |-> 0,
     start_idx |-> NoneIdx,
     observations_frame_idxs |-> <<>>,
     location_cache_filler |-> NoJob,
     cache_seek_idx |-> 0,
     on_surface_change |-> NoCallback,
     detected |-> FALSE,
     jobs |-> <<>>,
     exc |-> "none", n_callbacks |-> 0, cancelled |-> <<>>, started |-> <<>>, completed |-> <<>>,
     lookup |-> "none", lookup_cache |-> NoCache, lookup_filler |-> NoJob,
     scan |-> "none",
     scan_cache |-> NoCache, scan_callbacks |-> 0, drained |-> {}, saved |-> NoRecord,
     section |-> <<0, 0>>, mapped |-> <<>>, count |-> 0]

\* Surface_Offline(name, init_dict): line 33, then Surface.__init__, which
\* loads init_dict, then lines 35-39
__init__(init_dict) ==
    LET s1 == _load_from_dict([Blank EXCEPT !.location_cache = NoCache], init_dict)
    IN  [s1 EXCEPT !.cache_seek_idx = 0,
                   !.location_cache_filler = NoJob,
                   !.observations_frame_idxs = <<>>,
                   !.on_surface_change = NoCallback,
                   !.start_idx = NoneIdx,
                   !.saved = init_dict]

\* ------------------------------------------------------------- the state machine
NoCall == [op |-> "none", frame_idx |-> NoneIdx, exc |-> "none", n_callbacks |-> 0,
           cancelled |-> <<>>, started |-> <<>>, completed |-> <<>>, lookup |-> "none",
           lookup_cache |-> NoCache, lookup_filler |-> NoJob, scan |-> "none",
           scan_cache |-> NoCache,
           scan_callbacks |-> 0, drained |-> {}, saved |-> NoRecord,
     section |-> <<0, 0>>, mapped |-> <<>>, count |-> 0]

\* the object at the start of a call
Self ==
    [location_cache |-> location_cache,
     build_up_status |-> build_up_status,
     start_idx |-> start_idx,
     observations_frame_idxs |-> observations_frame_idxs,
     location_cache_filler |-> location_cache_filler,
     cache_seek_idx |-> cache_seek_idx,
     on_surface_change |-> on_surface_change,
     detected |-> detected,
     jobs |-> jobs,
     exc |-> "none", n_callbacks |-> 0, cancelled |-> <<>>, started |-> <<>>, completed |-> <<>>,
     lookup |-> "none", lookup_cache |-> NoCache, lookup_filler |-> NoJob,
     scan |-> "none",
     scan_cache |-> NoCache, scan_callbacks |-> 0, drained |-> {}, saved |-> NoRecord,
     section |-> <<0, 0>>, mapped |-> <<>>, count |-> 0]

\* the object and the record of the call when the call returns or raises
Return(r, op, frame_idx) ==
    /\ Cardinality(DOMAIN r.jobs) <= MaxJobs
    /\ location_cache' = r.location_cache
    /\ build_up_status' = r.build_up_status
    /\ start_idx' = r.start_idx
    /\ observations_frame_idxs' = r.observations_frame_idxs
    /\ location_cache_filler' = r.location_cache_filler
    /\ cache_seek_idx' = r.cache_seek_idx
    /\ on_surface_change' = r.on_surface_change
    /\ detected' = r.detected
    /\ jobs' = r.jobs
    /\ call' = [op |-> op, frame_idx |-> frame_idx, exc |-> r.exc,
                n_callbacks |-> r.n_callbacks, cancelled |-> r.cancelled, completed |-> r.completed,
                started |-> r.started, lookup |-> r.lookup,
                lookup_cache |-> r.lookup_cache, lookup_filler |-> r.lookup_filler,
                scan |-> r.scan,
                scan_cache |-> r.scan_cache, scan_callbacks |-> r.scan_callbacks,
                drained |-> r.drained, saved |-> r.saved,
                section |-> r.section, mapped |-> r.mapped, count |-> r.count]
    /\ UNCHANGED marker_cache

\* an uncaught exception ends the run
Running == call.exc = "none"

\* Surface_Offline(name): __init__ without init_dict
Init ==
    /\ marker_cache \in [Frames -> MarkerEntries]
    /\ location_cache = NoCache
    /\ build_up_status = 0
    /\ start_idx = NoneIdx
    /\ observations_frame_idxs = <<>>
    /\ location_cache_filler = NoJob
    /\ cache_seek_idx = 0
    /\ on_surface_change = NoCallback
    /\ detected = FALSE
    /\ jobs = <<>>
    /\ call = NoCall

UpdateLocation ==
    /\ Running
    /\ \E frame_idx \in Frames :
          Return(update_location(Self, frame_idx, marker_cache),
                 "update_location", frame_idx)

MoveCorner ==
    /\ Running
    /\ \E frame_idx \in Frames :
          Return(move_corner(Self, frame_idx, marker_cache), "move_corner", frame_idx)

AddMarker ==
    /\ Running
    /\ Return(add_marker(Self), "add_marker", NoneIdx)

PopMarker ==
    /\ Running
    /\ Return(pop_marker(Self), "pop_marker", NoneIdx)

\* the owner of the surface sets surface.on_surface_change
Subscribe ==
    /\ Running
    /\ on_surface_change = NoCallback
    /\ on_surface_change' = Callback
    /\ call' = NoCall
    /\ UNCHANGED <<marker_cache, location_cache, build_up_status, start_idx,
                   observations_frame_idxs, location_cache_filler, cache_seek_idx,
                   detected, jobs>>

\* the background process of a job that was not cancelled locates one more frame
WorkerStep ==
    /\ Running
    /\ \E j \in DOMAIN jobs :
          \E i \in jobs[j].todo :
                jobs' = [jobs EXCEPT ![j].todo = @ \ {i}, ![j].queue = @ \cup {i}]
    /\ call' = NoCall
    /\ UNCHANGED <<marker_cache, location_cache, build_up_status, start_idx,
                   observations_frame_idxs, location_cache_filler, cache_seek_idx,
                   on_surface_change, detected>>

\* the marker detection delivers the markers of one more frame
MarkerDetection ==
    /\ Running
    /\ \E i \in Frames :
          /\ marker_cache[i] = MarkerUnknown
          /\ \E m \in {MarkerEmpty, MarkerVisible} :
                marker_cache' = [marker_cache EXCEPT ![i] = m]
    /\ call' = NoCall
    /\ UNCHANGED <<location_cache, build_up_status, start_idx,
                   observations_frame_idxs, location_cache_filler, cache_seek_idx,
                   on_surface_change, detected, jobs>>

Next ==
    \/ UpdateLocation
    \/ MoveCorner
    \/ AddMarker
    \/ PopMarker
    \/ Subscribe
    \/ WorkerStep
    \/ MarkerDetection

Spec == Init /\ [][Next]_vars

TypeOK ==
    /\ marker_cache \in [Frames -> MarkerEntries]
    /\ location_cache = NoCache
         \/ location_cache \in [Frames -> {Unknown, NotDetected, Detected}]
    /\ build_up_status \in 0 .. RequiredObs
    /\ start_idx \in Frames \cup {NoneIdx}
    /\ location_cache_filler \in DOMAIN jobs \cup {NoJob}
    /\ DOMAIN jobs \subseteq 1 .. MaxJobs
    /\ detected \in BOOLEAN

\* ------------------------------------------------------------- claims
IsDefined == build_up_status >= RequiredObs
Resolved == {NotDetected, Detected}
AllMarkersUnknown == \A i \in Frames : marker_cache[i] = MarkerUnknown
FreshSurface ==
    /\ start_idx = NoneIdx
    /\ ~IsDefined
    /\ location_cache = NoCache
    /\ observations_frame_idxs = <<>>
    /\ location_cache_filler = NoJob

\* C1: update_location(0) on a freshly constructed surface, with a marker
\* source whose every entry is Unknown, returns without an exception, leaves
\* the definition non-terminal and the cache absent, and reports not detected.
C1_FreshAllUnknownReturns ==
    [][(/\ FreshSurface
        /\ AllMarkersUnknown
        /\ call'.op = "update_location"
        /\ call'.frame_idx = 0)
       => (/\ call'.exc = "none"
           /\ ~IsDefined'
           /\ location_cache' = NoCache
           /\ detected' = FALSE)]_vars

\* C2: after add_marker or pop_marker the cache is absent, and the following
\* update_location call on a defined surface that still holds a job (whatever
\* the job has pending) returns without an exception, leaves the stale job
\* neither held nor alive and starts exactly one new job.
C2_InvalidateThenUpdate ==
    [][(/\ call.op \in {"add_marker", "pop_marker"}
        /\ IsDefined
        /\ location_cache_filler # NoJob
        /\ call'.op = "update_location")
       => (/\ location_cache = NoCache
           /\ call'.exc = "none"
           /\ Len(call'.started) = 1
           /\ location_cache_filler \notin (DOMAIN jobs' \ SeqToSet(call'.started))
           /\ location_cache_filler' = call'.started[1])]_vars

\* C3: at most one background job is alive (neither cancelled nor completed),
\* it is the one the surface holds, and after a call that started a job the
\* job it started last is the only one alive: the job held before was
\* cancelled first.
C3_AtMostOneLiveJob ==
    /\ Cardinality(DOMAIN jobs) <= 1
    /\ DOMAIN jobs \subseteq {location_cache_filler}
    /\ call.started # <<>> =>
          /\ DOMAIN jobs = {call.started[Len(call.started)]}
          /\ call.lookup_filler # NoJob => call.lookup_filler \in SeqToSet(call.cancelled)

\* a call that cancelled the job it held and started a new one
C3_Witness ==
    /\ call.op = "update_location"
    /\ call.exc = "none"
    /\ call.lookup_filler # NoJob
    /\ call.cancelled = <<call.lookup_filler>>
    /\ Len(call.started) = 1

\* C4: move_corner called while a job is alive cancels that job and starts
\* none, so that no job is alive when it returns.
C4_MoveCornerCancelsJob ==
    [][(/\ call'.op = "move_corner"
        /\ location_cache_filler # NoJob)
       => (/\ call'.started = <<>>
           /\ call'.cancelled = <<location_cache_filler>>
           /\ jobs' = <<>>)]_vars

\* C5: right after move_corner(frame_idx) the cache is present with one entry
\* per frame, the entry of frame_idx is resolved and every other is Unknown.
C5_MoveCornerResetsCache ==
    call.op = "move_corner" =>
        /\ call.exc = "none"
        /\ location_cache # NoCache
        /\ DOMAIN location_cache = Frames
        /\ Cardinality(DOMAIN location_cache) = NFrames
        /\ location_cache[call.frame_idx] \in Resolved
        /\ \A i \in Frames \ {call.frame_idx} : location_cache[i] = Unknown

\* move_corner on a frame with markers while a job holds results
C5_Witness ==
    /\ call.op = "move_corner"
    /\ location_cache # NoCache
    /\ location_cache[call.frame_idx] = Detected
    /\ \E j \in DOMAIN jobs : jobs[j].queue # {}

\* C6 as claimed: an update_location call that finds the cache absent starts
\* exactly one job with the seek cursor at frame_idx and reports not detected,
\* whatever the marker source holds at frame_idx.
C6_AbsentReportsNotDetected ==
    (call.op = "update_location" /\ call.lookup = "absent") =>
        /\ call.exc = "none"
        /\ Len(call.started) = 1
        /\ cache_seek_idx = call.frame_idx
        /\ detected = FALSE

\* C6, amended: an update_location call that finds the cache absent cancels
\* the job it holds, resets the cache, starts exactly one job with the seek
\* cursor at frame_idx, and then reports not detected with an all-Unknown
\* cache when the marker source is Unknown at frame_idx; when the marker
\* source has data there, the entry of frame_idx is computed on demand, written
\* to the new cache and reported.
C6_AbsentRecalculates ==
    (call.op = "update_location" /\ call.lookup = "absent") =>
        /\ call.exc = "none"
        /\ Len(call.started) = 1
        /\ location_cache_filler = call.started[1]
        /\ DOMAIN jobs = {location_cache_filler}
        /\ call.cancelled = IF call.lookup_filler # NoJob
                            THEN <<call.lookup_filler>> ELSE <<>>
        /\ cache_seek_idx = call.frame_idx
        /\ location_cache # NoCache
        /\ \A i \in Frames \ {call.frame_idx} : location_cache[i] = Unknown
        /\ IF marker_cache[call.frame_idx] = MarkerUnknown
           THEN location_cache[call.frame_idx] = Unknown /\ detected = FALSE
           ELSE /\ location_cache[call.frame_idx] \in Resolved
                /\ detected = (location_cache[call.frame_idx] = Detected)

\* the cache was absent, a stale job was held, and the call reports detected
C6_Witness ==
    /\ call.op = "update_location"
    /\ call.lookup = "absent"
    /\ call.lookup_filler # NoJob
    /\ detected = TRUE

\* C7: an update_location call that finds the entry of frame_idx Unknown while
\* the marker source is Unknown there too reports not detected and writes
\* nothing: the cache is what the lookup saw and the entry is still Unknown.
C7_PendingMarkersNoWrite ==
    (/\ call.op = "update_location"
     /\ call.lookup = "unknown"
     /\ marker_cache[call.frame_idx] = MarkerUnknown) =>
        /\ call.exc = "none"
        /\ detected = FALSE
        /\ location_cache = call.lookup_cache
        /\ location_cache[call.frame_idx] = Unknown
        /\ call.started = <<>>

\* such a call, after a drain that wrote other entries
C7_Witness ==
    /\ call.op = "update_location"
    /\ call.lookup = "unknown"
    /\ marker_cache[call.frame_idx] = MarkerUnknown
    /\ call.drained # {}
    /\ location_cache[call.frame_idx] = Unknown

\* C8: an update_location call on a defined surface with a cache and a held
\* job drains every result the job has ready before it looks frame_idx up;
\* when the job is finished the handle is dropped, the callback is called if
\* a subscriber is set, and the call returns normally if none is set.
C8_DrainThenLookup ==
    [][(/\ call'.op = "update_location"
        /\ IsDefined
        /\ location_cache # NoCache
        /\ location_cache_filler # NoJob)
       => (/\ call'.drained = jobs[location_cache_filler].queue
           /\ jobs[location_cache_filler].todo = {} =>
                 /\ location_cache_filler' = NoJob
                 /\ call'.completed = <<location_cache_filler>>
                 /\ on_surface_change # NoCallback => call'.n_callbacks = 1
           /\ call'.exc = "none"
           /\ \A i \in call'.drained : call'.lookup_cache[i] \in Resolved)]_vars

\* C10 as claimed: a scan that stops at an Unknown marker entry leaves the
\* definition non-terminal, sets the cache absent and fires the callback.
C10_ScanAbortDevalidates ==
    (call.op = "update_location" /\ call.scan = "break") =>
        /\ call.scan_cache = NoCache
        /\ on_surface_change # NoCallback => call.scan_callbacks = 1

\* C10, amended: a scan that stops at an Unknown marker entry (by the break,
\* or by the TypeError of a first frame whose markers are Unknown) leaves the
\* definition non-terminal, leaves the cache as it was and fires no callback.
C10_ScanAbortKeepsCache ==
    [][(/\ call'.op = "update_location"
        /\ \/ call'.scan = "break"
           \/ call'.scan = "raised" /\ call'.exc = "TypeError")
       => (/\ ~IsDefined'
           /\ call'.scan_cache = location_cache
           /\ call'.scan_callbacks = 0)]_vars

\* a scan that stopped at an Unknown entry with a cache present and a subscriber
C10_Witness ==
    /\ call.op = "update_location"
    /\ call.scan = "break"
    /\ call.scan_cache # NoCache
    /\ on_surface_change = Callback
    /\ ~IsDefined

\* ------------------------------------------------------------- convergence
\* A recording whose markers are all computed, visited again and again while
\* the background process runs: the caller keeps calling update_location and
\* the background process keeps locating frames.
AllMarkersKnown == \A i \in Frames : marker_cache[i] # MarkerUnknown

InitKnown == Init /\ AllMarkersKnown

NextKnown ==
    \/ UpdateLocation
    \/ WorkerStep
    \/ Subscribe

\* The caller is weakly fair: update_location can be called in every state
\* of a run that no exception has ended (ENABLED UpdateLocation is Running).
CallerFair == []<>(~Running) \/ []<><<UpdateLocation>>_vars

LiveSpec ==
    /\ InitKnown
    /\ [][NextKnown]_vars
    /\ CallerFair
    /\ WF_vars(WorkerStep)

\* the background job has completed and its handle is dropped
FillDone ==
    /\ call.exc = "none"
    /\ location_cache # NoCache
    /\ location_cache_filler = NoJob
    /\ jobs = <<>>

\* C9: with every marker entry known and a fair worker, repeated
\* update_location calls reach a state where the job has completed and its
\* handle is dropped; from then on a call is a pure lookup: it returns the
\* cached result of its frame, changes no cache entry and starts no job.
C9_ConvergesToLookup ==
    /\ <>FillDone
    /\ [][(FillDone /\ call'.op = "update_location")
          => (/\ call'.exc = "none"
              /\ location_cache' = location_cache
              /\ call'.started = <<>>
              /\ location_cache[call'.frame_idx] \in Resolved
              /\ detected' = (location_cache[call'.frame_idx] = Detected))]_vars

\* every run that does not converge ends in an exception of update_location
C9_ConvergesOrRaises == <>(FillDone \/ call.exc # "none")

\* ------------------------------------------------------------- sessions
\* The surface is saved and a later session loads the record (or the part of it
\* that another writer of the record would have produced) into a new object;
\* the old object and its background job are gone with the old session.
Reload ==
    /\ Running
    /\ \E ks \in SUBSET {"cache", "added_in_player"} :
          Return(__init__(Strip(save_to_dict(Self), ks)), "load", NoneIdx)

\* the calls that change what is saved, and the load
NextPersist ==
    \/ UpdateLocation
    \/ MoveCorner
    \/ AddMarker
    \/ Subscribe
    \/ WorkerStep
    \/ Reload

PersistSpec == Init /\ [][NextPersist]_vars

\* ------------------------------------------------------------- reading
MapSection ==
    /\ Running
    /\ \E section \in Sections :
          Return([Self EXCEPT !.section = section,
                              !.mapped = map_section(Self, section)],
                 "map_section", NoneIdx)

VisibleCountInSection ==
    /\ Running
    /\ \E section \in Sections :
          Return([Self EXCEPT !.section = section,
                              !.count = visible_count_in_section(Self, section)],
                 "visible_count_in_section", NoneIdx)

\* the calls that fill and reset the cache, and the readers
NextReader ==
    \/ UpdateLocation
    \/ MoveCorner
    \/ WorkerStep
    \/ MapSection
    \/ VisibleCountInSection

ReaderSpec == Init /\ [][NextReader]_vars

\* ------------------------------------------------------------- bootstrap claims
\* C11: the scan sets build_up_status to 1.0 by loop closure only when every
\* frame has a known marker entry and was visited by the scan (is in
\* observations_frame_idxs): no frame was skipped.
C11_ClosureVisitsEveryFrame ==
    (call.op = "update_location" /\ call.scan = "closed") =>
        \A i \in Frames :
            /\ marker_cache[i] # MarkerUnknown
            /\ i \in SeqToSet(observations_frame_idxs)

\* C12 as claimed: while the surface is undefined the cache is absent, and an
\* update_location call that ends with the surface undefined has started no job.
C12_UndefinedHasNoCache ==
    ~IsDefined =>
        /\ location_cache = NoCache
        /\ call.op = "update_location" => call.started = <<>>

\* C12, amended: an update_location call that returns with the surface still
\* undefined (its scan stopped at an Unknown marker entry) leaves a cache of
\* one entry per frame; when it found the cache absent it started exactly one
\* job, which it holds, and otherwise it started none.
C12_UndefinedKeepsProvisionalCache ==
    (call.op = "update_location" /\ call.exc = "none" /\ ~IsDefined) =>
        /\ call.scan = "break"
        /\ location_cache # NoCache
        /\ DOMAIN location_cache = Frames
        /\ IF call.lookup = "absent"
           THEN /\ Len(call.started) = 1
                /\ location_cache_filler = call.started[1]
                /\ location_cache_filler \in DOMAIN jobs
           ELSE call.started = <<>>

\* an undefined surface whose call found no cache, started a job and located
\* its frame provisionally
C12_Witness ==
    /\ call.op = "update_location"
    /\ call.exc = "none"
    /\ ~IsDefined
    /\ call.lookup = "absent"
    /\ Len(call.started) = 1
    /\ location_cache # NoCache
    /\ location_cache[call.frame_idx] = Detected

\* ------------------------------------------------------------- persistence claims
\* C13: saving and loading the saved record yields a cache equal entry for
\* entry to the saved one when every entry was resolved at save time; when the
\* cache was absent or had an Unknown entry, the saved cache field is null and
\* the loaded cache is absent.
C13_SaveLoadRoundTrip ==
    [][(call'.op = "load" /\ "cache" \in call'.saved.keys)
       => IF location_cache # NoCache
             /\ \A i \in Frames : location_cache[i] \in Resolved
          THEN /\ ~call'.saved.cache_is_none
               /\ DOMAIN call'.saved.cache = Frames
               /\ location_cache' = location_cache
          ELSE /\ call'.saved.cache_is_none
               /\ location_cache' = NoCache]_vars

\* a loaded cache with a Detected and a NotDetected entry
C13_Witness ==
    /\ call.op = "load"
    /\ ~call.saved.cache_is_none
    /\ location_cache # NoCache
    /\ \E i \in Frames : location_cache[i] = Detected
    /\ \E i \in Frames : location_cache[i] = NotDetected

\* C14: a surface loaded from a record without the added_in_player sub-record
\* has observations_frame_idxs empty, start_idx 0 and build_up_status 1.0; one
\* loaded from a record with the sub-record has the persisted start_idx and
\* observations_frame_idxs.
C14_LoadRestoresBootstrap ==
    call.op = "load" =>
        IF "added_in_player" \notin call.saved.keys
        THEN /\ observations_frame_idxs = <<>>
             /\ start_idx = 0
             /\ build_up_status = RequiredObs
        ELSE /\ start_idx = call.saved.start_idx
             /\ observations_frame_idxs = call.saved.observations_frame_idxs

\* ------------------------------------------------------------- reader claims
\* C15: map_section returns an empty result when the cache is absent;
\* otherwise it returns one per-frame sequence for each frame of the section,
\* in frame order: empty where the cache entry is Unknown or NotDetected, the
\* mapped events of the frame's window where it is Detected.
C15_MapSectionAligned ==
    call.op = "map_section" =>
        /\ call.exc = "none"
        /\ IF location_cache = NoCache
           THEN call.mapped = <<>>
           ELSE /\ Len(call.mapped) = call.section[2] - call.section[1]
                /\ \A i \in call.section[1] .. (call.section[2] - 1) :
                      call.mapped[i - call.section[1] + 1] =
                          IF location_cache[i] = Detected
                          THEN GazeOnSurf(i) ELSE <<>>

\* a section that starts after frame 0 and holds a Detected entry and one
\* that is not
C15_Witness ==
    /\ call.op = "map_section"
    /\ location_cache # NoCache
    /\ call.section[1] > 0
    /\ \E i \in call.section[1] .. (call.section[2] - 1) :
          location_cache[i] = Detected
    /\ \E i \in Frames : location_cache[i] # Detected

\* C16: visible_count_in_section returns the number of entries of the section
\* that are Detected, and 0 when the cache is absent.
C16_CountsDetected ==
    call.op = "visible_count_in_section" =>
        call.count =
            IF location_cache = NoCache THEN 0
            ELSE Cardinality({i \in call.section[1] .. (call.section[2] - 1) :
                                 location_cache[i] = Detected})

\* ------------------------------------------------------------- scan and job claims
\* C17: with every marker entry known, the scan that update_location(frame_idx)
\* runs on an undefined surface ends without an exception for every frame_idx,
\* frame 0 and the last frame included, with the definition terminal
\* (build_up_status 1.0).
C17_ScanTerminatesDefined ==
    [][(/\ ~IsDefined
        /\ AllMarkersKnown
        /\ call'.op = "update_location")
       => (/\ call'.scan \in {"closed", "else"}
           /\ build_up_status' = RequiredObs)]_vars

\* C18: the update_location call that follows a move_corner call, when it
\* returns, has started exactly one background job.
C18_UpdateAfterMoveCornerStartsJob ==
    [][(/\ call.op = "move_corner"
        /\ call'.op = "update_location"
        /\ call'.exc = "none")
       => Len(call'.started) = 1]_vars

\* C19: a job that was held before the cache was reset or invalidated
\* (move_corner, add_marker, pop_marker) writes nothing into the cache that
\* exists after it: the next update_location, when it returns, has drained no
\* result of that job into the cache.
C19_NoStaleResults ==
    [][(/\ call.op \in {"move_corner", "add_marker", "pop_marker"}
        /\ location_cache_filler # NoJob
        /\ call'.op = "update_location"
        /\ call'.exc = "none")
       => call'.drained = {}]_vars

\* C20: observations_frame_idxs only grows (what it held stays, in place) and
\* holds no frame twice, over update_location, move_corner, add_marker and
\* pop_marker.
C20_ObservationsGrowOnly ==
    [][/\ Len(observations_frame_idxs') >= Len(observations_frame_idxs)
       /\ SubSeq(observations_frame_idxs', 1, Len(observations_frame_idxs))
              = observations_frame_idxs
       /\ \A i, j \in 1 .. Len(observations_frame_idxs') :
              observations_frame_idxs'[i] = observations_frame_idxs'[j] => i = j]_vars

\* every frame was recorded, the last one after the scan wrapped around
C20_Witness ==
    /\ call.op \in {"update_location", "add_marker"}
    /\ Len(observations_frame_idxs) = NFrames
    /\ observations_frame_idxs[1] > observations_frame_idxs[NFrames]

====
